---- MODULE Spec2Model ----
(***************************************************************************)
(* Model of the voca-monster orchestration layer: the App component's      *)
(* state machine (view, loadingState, progress steps, definition effect),  *)
(* the timers it schedules, the geminiService client (credential           *)
(* resolution, analyzeTextForVocabulary, generateWorksheetData,            *)
(* streamDefinition, generateAsciiArt) and the ApiKeyManager.              *)
(*                                                                         *)
(* Strings are sequences of one-character strings, so that trim(),         *)
(* startsWith(), length and replace() are computed.  Texts shown in the    *)
(* page (mainText, definitionContent) are sequences of pieces; string      *)
(* concatenation is sequence concatenation.                                *)
(***************************************************************************)
EXTENDS Integers, Sequences, FiniteSets, TLC

\* ------------------------------------------------------------------ bounds
\* operations (handleAnalyze, handleRandom, handleGenerateWorksheet and
\* definition fetches together) explored per behaviour of Spec
MaxOps == 2
\* chunks the service sends on one stream before it must end or fail
MaxChunks == 1
\* ApiKeyManager save/remove clicks explored per behaviour
MaxKeyOps == 1

\* --------------------------------------------------------- option values
None == [some |-> FALSE]
Some(v) == [some |-> TRUE, val |-> v]

\* ------------------------------------------------------ string primitives
IsSpace(c) == c = " "

RECURSIVE TrimLeft(_)
TrimLeft(s) ==
  IF s # <<>> /\ IsSpace(Head(s)) THEN TrimLeft(Tail(s)) ELSE s

RECURSIVE TrimRight(_)
TrimRight(s) ==
  IF s # <<>> /\ IsSpace(s[Len(s)]) THEN TrimRight(SubSeq(s, 1, Len(s) - 1)) ELSE s

\* String.prototype.trim
Trim(s) == TrimRight(TrimLeft(s))

\* String.prototype.startsWith
StartsWith(s, p) == Len(s) >= Len(p) /\ SubSeq(s, 1, Len(p)) = p

\* 'c'.repeat(n)
Repeat(c, n) == [i \in 1..n |-> c]

\* the truthiness of a JavaScript string
Truthy(s) == s # <<>>

\* ------------------------------------------------------------ credentials
\* the shortest key handleSaveKey accepts
MinKeyLength == 20

\* the prefix handleSaveKey expects
KeyPrefix == <<"A", "I">>

PLACEHOLDER_API_KEY == <<"P", "L", "A", "C", "E", "H", "O", "L", "D", "E", "R">>

\* a well-formed key saved by the user, and one supplied by the build
SavedKey == KeyPrefix \o Repeat("s", MinKeyLength - 2)
BuildKey == KeyPrefix \o Repeat("e", MinKeyLength - 2)

\* the build-time environments explored: VITE_GEMINI_API_KEY (import.meta.env),
\* GEMINI_API_KEY and API_KEY (process.env); None is undefined
NoEnv == [VITE_GEMINI_API_KEY |-> None, GEMINI_API_KEY |-> None, API_KEY |-> None]
EnvConfigs == { NoEnv, [NoEnv EXCEPT !.VITE_GEMINI_API_KEY = Some(BuildKey)] }

\* what the user may type into the key field before pressing Save: keys that
\* handleSaveKey stores, and texts it answers with an error message only
KeyInputs == { SavedKey, <<" ">> \o SavedKey \o <<" ">> }
RejectedKeyInputs ==
  { <<>>, <<" ", " ">>, <<"s", "h", "o", "r", "t">>, KeyPrefix \o Repeat("s", MinKeyLength - 3),
    <<" ">> \o KeyPrefix \o Repeat("s", MinKeyLength - 3) \o <<" ">>,
    Repeat("s", MinKeyLength), <<"a", "i">> \o Repeat("s", MinKeyLength - 2) }

\* geminiService.getCurrentApiKey: localStorage first, then the Vite value,
\* then process.env.API_KEY; None is null
getCurrentApiKey(ls, e) ==
  IF ls.some /\ Truthy(ls.val) /\ Truthy(Trim(ls.val)) THEN ls
  ELSE IF e.VITE_GEMINI_API_KEY.some /\ Truthy(e.VITE_GEMINI_API_KEY.val)
          /\ Truthy(Trim(e.VITE_GEMINI_API_KEY.val)) THEN e.VITE_GEMINI_API_KEY
  ELSE IF e.API_KEY.some /\ Truthy(e.API_KEY.val) /\ e.API_KEY.val # PLACEHOLDER_API_KEY
       THEN e.API_KEY
  ELSE None

\* geminiService.setApiKey: the new value of the module-level client `ai`
\* (a client is represented by the key it was built with)
setApiKey(apiKey) ==
  IF apiKey.some /\ Truthy(apiKey.val) /\ Truthy(Trim(apiKey.val))
  THEN Some(Trim(apiKey.val)) ELSE None

\* geminiService.ensureAiClient: [ok |-> it returned, ai |-> the client after]
ensureAiClient(client, ls, e) ==
  IF client.some THEN [ok |-> TRUE, ai |-> client]
  ELSE LET apiKey == getCurrentApiKey(ls, e)
       IN IF ~apiKey.some THEN [ok |-> FALSE, ai |-> client]
          ELSE [ok |-> TRUE, ai |-> apiKey]

\* the key the ApiKeyManager mount effect hands to onApiKeyChange, None when
\* it does not call it
StartupKey(ls, e) ==
  IF ls.some /\ Truthy(ls.val) /\ Truthy(Trim(ls.val)) THEN ls
  ELSE LET apiKeyFromEnv ==
             IF e.VITE_GEMINI_API_KEY.some /\ e.VITE_GEMINI_API_KEY.val # PLACEHOLDER_API_KEY
             THEN e.VITE_GEMINI_API_KEY
             ELSE e.GEMINI_API_KEY
       IN IF apiKeyFromEnv.some /\ Truthy(apiKeyFromEnv.val) THEN apiKeyFromEnv ELSE None

\* ------------------------------------------------------------ error texts
\* an error message is [text |-> the wrapper's prefix, cause |-> the message
\* wrapped]; Null is the null of `error`
Plain(m) == [text |-> "", cause |-> m]
Null == [text |-> "", cause |-> "null"]
NoKeyMessage == Plain("No API key configured. Please set up your Gemini API key.")
ConfigureKeyMessage == Plain("Please configure your Gemini API key first.")
AnalyzeFailed(m) == [text |-> "Could not analyze text for vocabulary: ", cause |-> m]
WorksheetFailed(m) == [text |-> "Could not generate worksheet: ", cause |-> m]

\* ------------------------------------------------------------ page texts
\* a piece of text: what it is, the topic it is about, its position in its
\* stream and the run of streamDefinition's caller that received it (0: none)
Piece(k, of, n) == [k |-> k, of |-> of, n |-> n, run |-> 0]
WELCOME_TEXT == << Piece("welcome", <<>>, 0) >>
EmptyText == <<>>
WhitePiece == Piece("space", <<>>, 0)

RECURSIVE TrimTextLeft(_)
TrimTextLeft(t) ==
  IF t # <<>> /\ Head(t) = WhitePiece THEN TrimTextLeft(Tail(t)) ELSE t

RECURSIVE TrimTextRight(_)
TrimTextRight(t) ==
  IF t # <<>> /\ t[Len(t)] = WhitePiece THEN TrimTextRight(SubSeq(t, 1, Len(t) - 1)) ELSE t

\* trim() of a page text
TrimText(t) == TrimTextRight(TrimTextLeft(t))

\* the texts a user may have in the textarea when pressing a button
UserTexts == { << Piece("user", <<>>, 1) >>, << WhitePiece >> }

SAMPLE_TOPICS == { <<"Q", "C">>, <<"S", "E">> }

\* ------------------------------------------------------------ vocabulary
\* words the service may name; the last one is punctuation only
WordPool == { <<"a">>, <<"b", ".">>, <<"!">> }
AnalysisResults == { <<>>, << <<"a">>, <<"b", ".">> >> }

Punctuation == { ".", ",", "!", "?", ";", ":", "(", ")", "\"", "'" }

RECURSIVE StripPunctuation(_)
StripPunctuation(s) ==
  IF s = <<>> THEN <<>>
  ELSE IF Head(s) \in Punctuation THEN StripPunctuation(Tail(s))
       ELSE <<Head(s)>> \o StripPunctuation(Tail(s))

\* handleWordClick: word.trim().replace(/[.,!?;:()"']/g, '')
cleanedWord(word) == StripPunctuation(Trim(word))

\* ---------------------------------------------------------- progress steps
Step(id) == [id |-> id, completed |-> FALSE, active |-> FALSE]

createProgressSteps(type) ==
  CASE type = "analyze" ->
         << [Step("preprocessing") EXCEPT !.active = TRUE], Step("analysis"),
            Step("ranking"), Step("finalizing") >>
    [] type = "worksheet" ->
         << [Step("setup") EXCEPT !.active = TRUE], Step("definitions"),
            Step("questions"), Step("formatting") >>
    [] type = "definition" ->
         << [Step("research") EXCEPT !.active = TRUE], Step("ascii"), Step("content") >>
    [] OTHER -> <<>>

\* Array.prototype.findIndex, 1-based; 0 when absent
FindIndex(steps, stepId) ==
  IF \E i \in 1..Len(steps) : steps[i].id = stepId
  THEN CHOOSE i \in 1..Len(steps) :
         steps[i].id = stepId /\ \A j \in 1..(i - 1) : steps[j].id # stepId
  ELSE 0

\* the steps after updateProgressStep(stepId, completed)
StepsAfter(prev, stepId, completed) ==
  LET currentIndex == FindIndex(prev, stepId)
  IN IF currentIndex = 0 THEN prev
     ELSE [i \in 1..Len(prev) |->
             IF i = currentIndex
             THEN [prev[i] EXCEPT !.completed = completed, !.active = FALSE]
             ELSE IF completed /\ i = currentIndex + 1
                  THEN [prev[i] EXCEPT !.active = TRUE]
                  ELSE prev[i]]

\* App.updateProgressStep applied to the App state a
updateProgressStep(a, stepId, completed) ==
  LET currentIndex == FindIndex(a.progressSteps, stepId)
      newSteps == StepsAfter(a.progressSteps, stepId, completed)
  IN IF currentIndex > 0 /\ completed /\ currentIndex + 1 <= Len(newSteps)
     THEN [a EXCEPT !.progressSteps = newSteps,
                    !.currentProgressStep = newSteps[currentIndex + 1].id]
     ELSE [a EXCEPT !.progressSteps = newSteps]

\* ------------------------------------------------------------- ascii art
\* createFallbackArt: the three lines of the box around the topic; TL, TR,
\* BL, BR, H and V stand for the box-drawing corners and edges
createFallbackArt(topic) ==
  LET displayableTopic == IF Len(topic) > 20
                          THEN SubSeq(topic, 1, 17) \o <<".", ".", ".">>
                          ELSE topic
      paddedTopic == <<" ">> \o displayableTopic \o <<" ">>
  IN [art |-> [kind |-> "fallback",
               lines |-> << <<"TL">> \o Repeat("H", Len(paddedTopic)) \o <<"TR">>,
                            <<"V">> \o paddedTopic \o <<"V">>,
                            <<"BL">> \o Repeat("H", Len(paddedTopic)) \o <<"BR">> >>]]

\* the art the service draws for a topic
ServiceArt(topic) == [art |-> [kind |-> "generated", lines |-> << topic >>]]

\* ------------------------------------------------------------------ state
VARIABLES
  app,            \* the App component's useState cells, one field each
  ai,             \* geminiService's module-level client (its key), None = null
  localStorage,   \* the value stored under 'gemini_api_key', None = absent
  env,            \* the build-time environment
  keyMgr,         \* the mounted ApiKeyManager's state
  analyzeReqs,    \* handleAnalyze calls awaiting analyzeTextForVocabulary
  worksheetReqs,  \* handleGenerateWorksheet calls awaiting generateWorksheetData
  randomOps,      \* handleRandom calls awaiting the stream or the analysis
  defReqs,        \* runs of fetchDefinition with a stream or an art request open
  timers,         \* pending setTimeout callbacks, soonest first
  count,          \* operations started, per kind, and the bounds on them
  lastEvent       \* what the last step did (history, read by the properties)

vars == << app, ai, localStorage, env, keyMgr, analyzeReqs, worksheetReqs,
           randomOps, defReqs, timers, count, lastEvent >>

\* lastEvent names the failure or rejection the last step delivered, with the
\* operation it belongs to; any other step leaves Quiet
Event(name, op) == [name |-> name, op |-> op]
Quiet == Event("-", 0)

\* no operation started yet, under the given exploration bounds
Started(limit) ==
  [analyze |-> 0, worksheet |-> 0, random |-> 0, def |-> 0, key |-> 0, limit |-> limit]

\* the exploration bounds of Spec: any MaxOps operations
Limits ==
  [analyze |-> MaxOps, worksheet |-> MaxOps, random |-> MaxOps, def |-> MaxOps,
   key |-> MaxKeyOps, total |-> MaxOps]

\* whether one more operation of the kind may be started within the bounds
MayStart(kind) ==
  /\ count[kind] < count.limit[kind]
  /\ count.analyze + count.worksheet + count.random + count.def < count.limit.total

\* the useState initial values of App
AppInitial ==
  [ view |-> "analyzer", loadingState |-> "idle", mainText |-> WELCOME_TEXT,
    analyzedWords |-> <<>>, selectedWords |-> <<>>, error |-> Null,
    apiKeyConfigured |-> FALSE, showProgress |-> FALSE, progressSteps |-> <<>>,
    currentProgressStep |-> "", definitionTopic |-> <<>>,
    definitionContent |-> <<>>, asciiArt |-> None, generationTime |-> None,
    worksheetData |-> None ]

\* App.handleApiKeyChange applied to the App state a (its setApiKey call is
\* applied to `ai` by the caller)
handleApiKeyChange(a, apiKey) ==
  LET configured == apiKey.some /\ Truthy(apiKey.val)
  IN [a EXCEPT !.apiKeyConfigured = configured,
               !.error = IF configured THEN Null ELSE a.error]

\* the ApiKeyManager mount effect: App state, client and manager state after
MountKeyManager(a, client, ls, e) ==
  LET k == StartupKey(ls, e)
  IN IF k.some
     THEN [app |-> handleApiKeyChange(a, k), ai |-> setApiKey(k),
           keyMgr |-> [isKeySet |-> TRUE]]
     ELSE [app |-> a, ai |-> client, keyMgr |-> [isKeySet |-> FALSE]]

\* the page after its first render and the ApiKeyManager mount effect, for a
\* build environment and a browser storage drawn from the given sets
Loaded(envs, stores, limit) ==
  /\ env \in envs
  /\ localStorage \in stores
  /\ LET m == MountKeyManager(AppInitial, None, localStorage, env)
     IN app = m.app /\ ai = m.ai /\ keyMgr = m.keyMgr
  /\ analyzeReqs = {} /\ worksheetReqs = {} /\ randomOps = {} /\ defReqs = {}
  /\ timers = <<>>
  /\ count = Started(limit)
  /\ lastEvent = Quiet

Init == Loaded(EnvConfigs, { None, Some(SavedKey) }, Limits)

\* ----------------------------------------------------------------- timers
\* the timer delays of handleAnalyze and handleGenerateWorksheet, in ms
PreprocessingDelay == 500
AnalysisDelay == 1500
RankingDelay == 2500
AnalysisResultDelay == 500
SetupDelay == 800
DefinitionsDelay == 2000
QuestionsDelay == 4000
WorksheetResultDelay == 800

\* time advances in ticks of 100 ms, which divides every delay
Ticks(ms) == ms \div 100

Timer(type, op, kind, stepId, words, data, ms) ==
  [type |-> type, op |-> op, kind |-> kind, stepId |-> stepId, words |-> words,
   data |-> data, rem |-> Ticks(ms)]

\* setTimeout: callbacks run in order of due time, and in order of the
\* setTimeout calls when due together
setTimeout(ts, t) ==
  LET before == Cardinality({ i \in 1..Len(ts) : ts[i].rem <= t.rem })
  IN SubSeq(ts, 1, before) \o << t >> \o SubSeq(ts, before + 1, Len(ts))

StepTimer(type, op, stepId, ms) == Timer(type, op, "step", stepId, <<>>, None, ms)

\* the effect cleanup of fetchDefinition: isCancelled = true
CancelAll(reqs) == { [r EXCEPT !.cancelled = TRUE] : r \in reqs }

\* -------------------------------------------------------- ApiKeyManager
\* a validation without the test of the key's length
KeyAcceptedAnyLength(input) ==
  LET trimmedKey == Trim(input)
  IN /\ Truthy(trimmedKey)
     /\ StartsWith(trimmedKey, KeyPrefix)

\* handleSaveKey's validation of the typed key
KeyAccepted(input) ==
  LET trimmedKey == Trim(input)
  IN /\ Truthy(trimmedKey)
     /\ StartsWith(trimmedKey, KeyPrefix)
     /\ Len(trimmedKey) >= MinKeyLength

\* the error message handleSaveKey shows for a key it does not accept
SaveRejection(input) ==
  IF ~Truthy(Trim(input)) THEN "key:Please enter a valid API key"
  ELSE "key:Invalid Gemini API key format"

\* ApiKeyManager.handleSaveKey with `input` typed into the field
handleSaveKey(input) ==
  /\ count.key < count.limit.key
  /\ IF KeyAccepted(input)
     THEN /\ localStorage' = Some(Trim(input))
          /\ keyMgr' = [isKeySet |-> TRUE]
          /\ ai' = setApiKey(Some(Trim(input)))
          /\ app' = handleApiKeyChange(app, Some(Trim(input)))
          /\ count' = [count EXCEPT !.key = @ + 1]
          /\ lastEvent' = Quiet
     ELSE /\ lastEvent' = Event(SaveRejection(input), 0)
          /\ UNCHANGED << localStorage, keyMgr, ai, app, count >>
  /\ UNCHANGED << env, analyzeReqs, worksheetReqs, randomOps, defReqs, timers >>

\* a removal that leaves the service's client in place
handleRemoveKeyKeepingClient ==
  /\ count.key < count.limit.key
  /\ localStorage' = None
  /\ keyMgr' = [isKeySet |-> FALSE]
  /\ ai' = ai
  /\ app' = handleApiKeyChange(app, None)
  /\ count' = [count EXCEPT !.key = @ + 1]
  /\ lastEvent' = Quiet
  /\ UNCHANGED << env, analyzeReqs, worksheetReqs, randomOps, defReqs, timers >>

\* ApiKeyManager.handleRemoveKey
handleRemoveKey ==
  /\ count.key < count.limit.key
  /\ localStorage' = None
  /\ keyMgr' = [isKeySet |-> FALSE]
  /\ ai' = setApiKey(None)
  /\ app' = handleApiKeyChange(app, None)
  /\ count' = [count EXCEPT !.key = @ + 1]
  /\ lastEvent' = Quiet
  /\ UNCHANGED << env, analyzeReqs, worksheetReqs, randomOps, defReqs, timers >>

\* ------------------------------------------------------- service responses
\* what the service may answer to analyzeTextForVocabulary's request
AnalyzeResponses ==
  { [kind |-> "array", words |-> w] : w \in AnalysisResults }
    \cup { [kind |-> k, words |-> <<>>] : k \in { "otherJson", "garbage", "transport" } }

\* analyzeTextForVocabulary from its request's answer on
analyzeOutcome(resp) ==
  CASE resp.kind = "transport" -> [ok |-> FALSE, error |-> AnalyzeFailed("transport")]
    [] resp.kind = "garbage" -> [ok |-> FALSE, error |-> AnalyzeFailed("SyntaxError")]
    [] resp.kind = "otherJson" ->
         [ok |-> FALSE, error |-> AnalyzeFailed("API returned data in an unexpected format.")]
    [] OTHER -> [ok |-> TRUE, words |-> resp.words]

\* what the service may answer to generateWorksheetData's request
WorksheetResponses ==
  { [kind |-> "json", title |-> t, details |-> d] : t \in BOOLEAN, d \in 0..1 }
    \cup { [kind |-> k, title |-> FALSE, details |-> 0] : k \in { "garbage", "transport" } }

\* generateWorksheetData from its request's answer on
worksheetOutcome(resp) ==
  CASE resp.kind = "transport" -> [ok |-> FALSE, error |-> WorksheetFailed("transport")]
    [] resp.kind = "garbage" -> [ok |-> FALSE, error |-> WorksheetFailed("SyntaxError")]
    [] ~resp.title \/ resp.details = 0 ->
         [ok |-> FALSE, error |-> WorksheetFailed("API returned incomplete worksheet data.")]
    [] OTHER -> [ok |-> TRUE, data |-> [title |-> "title", details |-> resp.details]]

\* --------------------------------------------------------- handleAnalyze
\* the catch and finally blocks of handleAnalyze / handleGenerateWorksheet
CatchProgress(a, message) ==
  [a EXCEPT !.error = message, !.showProgress = FALSE, !.loadingState = "idle"]

\* the statements after `await analyzeTextForVocabulary` and the finally block
AnalyzeDone(a) ==
  [updateProgressStep(a, "finalizing", TRUE) EXCEPT !.loadingState = "idle"]

AnalysisResultTimer(op, words) ==
  Timer("analyze", op, "analysisResult", "", words, None, AnalysisResultDelay)

\* App.handleAnalyze(text), up to its first suspension
handleAnalyze(text) ==
  IF ~app.apiKeyConfigured
  THEN /\ app' = [app EXCEPT !.error = ConfigureKeyMessage]
       /\ lastEvent' = Quiet
       /\ UNCHANGED << ai, localStorage, env, keyMgr, analyzeReqs, worksheetReqs,
                       randomOps, defReqs, timers, count >>
  ELSE
    LET op == count.analyze + 1
        a1 == [app EXCEPT !.loadingState = "analyzing", !.error = Null,
                          !.mainText = text, !.analyzedWords = <<>>,
                          !.selectedWords = <<>>,
                          !.progressSteps = createProgressSteps("analyze"),
                          !.currentProgressStep = "preprocessing",
                          !.showProgress = TRUE]
        ts == setTimeout(setTimeout(setTimeout(timers,
                StepTimer("analyze", op, "preprocessing", PreprocessingDelay)),
                StepTimer("analyze", op, "analysis", AnalysisDelay)),
                StepTimer("analyze", op, "ranking", RankingDelay))
        client == ensureAiClient(ai, localStorage, env)
    IN /\ MayStart("analyze")
       /\ count' = [count EXCEPT !.analyze = op]
       /\ ai' = client.ai
       /\ IF ~client.ok
          THEN /\ app' = CatchProgress(a1, NoKeyMessage)
               /\ timers' = ts
               /\ lastEvent' = Event("fail:analyze", op)
               /\ UNCHANGED analyzeReqs
          ELSE IF ~Truthy(TrimText(text))
          THEN /\ app' = AnalyzeDone(a1)
               /\ timers' = setTimeout(ts, AnalysisResultTimer(op, <<>>))
               /\ lastEvent' = Quiet
               /\ UNCHANGED analyzeReqs
          ELSE /\ app' = a1
               /\ timers' = ts
               /\ analyzeReqs' = analyzeReqs \cup { [op |-> op] }
               /\ lastEvent' = Quiet
       /\ UNCHANGED << localStorage, env, keyMgr, worksheetReqs, randomOps, defReqs >>

\* the service answers a handleAnalyze request; handleAnalyze resumes
AnalyzeResponse(r, resp) ==
  /\ r \in analyzeReqs
  /\ analyzeReqs' = analyzeReqs \ { r }
  /\ LET out == analyzeOutcome(resp)
     IN IF out.ok
        THEN /\ app' = AnalyzeDone(app)
             /\ timers' = setTimeout(timers, AnalysisResultTimer(r.op, out.words))
             /\ lastEvent' = Quiet
        ELSE /\ app' = CatchProgress(app, out.error)
             /\ timers' = timers
             /\ lastEvent' = Event("fail:analyze", r.op)
  /\ UNCHANGED << ai, localStorage, env, keyMgr, worksheetReqs, randomOps, defReqs, count >>

\* ----------------------------------------------- handleGenerateWorksheet
WorksheetResultTimer(op, data) ==
  Timer("worksheet", op, "worksheetResult", "", <<>>, Some(data), WorksheetResultDelay)

\* the statements after `await generateWorksheetData` and the finally block
WorksheetDone(a) ==
  [updateProgressStep(a, "formatting", TRUE) EXCEPT !.loadingState = "idle"]

\* App.handleGenerateWorksheet, up to its first suspension
handleGenerateWorksheet ==
  IF Len(app.selectedWords) = 0
  THEN UNCHANGED vars
  ELSE
    LET op == count.worksheet + 1
        a1 == [app EXCEPT !.loadingState = "generating_worksheet", !.error = Null,
                          !.progressSteps = createProgressSteps("worksheet"),
                          !.currentProgressStep = "setup",
                          !.showProgress = TRUE]
        ts == setTimeout(setTimeout(setTimeout(timers,
                StepTimer("worksheet", op, "setup", SetupDelay)),
                StepTimer("worksheet", op, "definitions", DefinitionsDelay)),
                StepTimer("worksheet", op, "questions", QuestionsDelay))
        client == ensureAiClient(ai, localStorage, env)
    IN /\ MayStart("worksheet")
       /\ count' = [count EXCEPT !.worksheet = op]
       /\ ai' = client.ai
       /\ timers' = ts
       /\ IF ~client.ok
          THEN /\ app' = CatchProgress(a1, NoKeyMessage)
               /\ lastEvent' = Event("fail:worksheet", op)
               /\ UNCHANGED worksheetReqs
          ELSE IF ~Truthy(TrimText(app.mainText)) \/ Len(app.selectedWords) = 0
          THEN /\ app' = CatchProgress(a1, Plain("Invalid input for worksheet generation."))
               /\ lastEvent' = Event("fail:worksheet", op)
               /\ UNCHANGED worksheetReqs
          ELSE /\ app' = a1
               /\ worksheetReqs' = worksheetReqs \cup { [op |-> op] }
               /\ lastEvent' = Quiet
       /\ UNCHANGED << localStorage, env, keyMgr, analyzeReqs, randomOps, defReqs >>

\* the service answers a worksheet request; handleGenerateWorksheet resumes
WorksheetResponse(r, resp) ==
  /\ r \in worksheetReqs
  /\ worksheetReqs' = worksheetReqs \ { r }
  /\ LET out == worksheetOutcome(resp)
     IN IF out.ok
        THEN /\ app' = WorksheetDone(app)
             /\ timers' = setTimeout(timers, WorksheetResultTimer(r.op, out.data))
             /\ lastEvent' = Quiet
        ELSE /\ app' = CatchProgress(app, out.error)
             /\ timers' = timers
             /\ lastEvent' = Event("fail:worksheet", r.op)
  /\ UNCHANGED << ai, localStorage, env, keyMgr, analyzeReqs, randomOps, defReqs, count >>

\* ------------------------------------------------------ timer callbacks
Due == timers # <<>> /\ Head(timers).rem = 0

\* a cosmetic timer of handleAnalyze / handleGenerateWorksheet runs
FireStepTimer ==
  /\ Due /\ Head(timers).kind = "step"
  /\ app' = updateProgressStep(app, Head(timers).stepId, TRUE)
  /\ timers' = Tail(timers)
  /\ lastEvent' = Quiet
  /\ UNCHANGED << ai, localStorage, env, keyMgr, analyzeReqs, worksheetReqs,
                  randomOps, defReqs, count >>

\* the callback handleAnalyze schedules after the analysis has returned
FireAnalysisResult ==
  /\ Due /\ Head(timers).kind = "analysisResult"
  /\ app' = [app EXCEPT !.analyzedWords = Head(timers).words, !.showProgress = FALSE]
  /\ timers' = Tail(timers)
  /\ lastEvent' = Quiet
  /\ UNCHANGED << ai, localStorage, env, keyMgr, analyzeReqs, worksheetReqs,
                  randomOps, defReqs, count >>

\* whether the dependencies [view, definitionTopic] of the definition effect
\* differ between two renders
DepsChanged(a, b) == a.view # b.view \/ a.definitionTopic # b.definitionTopic

\* a result callback that changes the view and leaves the data alone
FireWorksheetResultViewOnly ==
  /\ Due /\ Head(timers).kind = "worksheetResult"
  /\ app' = [app EXCEPT !.view = "worksheet", !.showProgress = FALSE]
  /\ defReqs' = IF DepsChanged(app, app') THEN CancelAll(defReqs) ELSE defReqs
  /\ keyMgr' = [isKeySet |-> FALSE]
  /\ timers' = Tail(timers)
  /\ lastEvent' = Quiet
  /\ UNCHANGED << ai, localStorage, env, analyzeReqs, worksheetReqs, randomOps, count >>

\* the callback handleGenerateWorksheet schedules after the data has returned;
\* leaving the definition view runs the definition effect's cleanup
FireWorksheetResult ==
  /\ Due /\ Head(timers).kind = "worksheetResult"
  /\ app' = [app EXCEPT !.worksheetData = Head(timers).data, !.view = "worksheet",
                        !.showProgress = FALSE]
  /\ defReqs' = IF DepsChanged(app, app') THEN CancelAll(defReqs) ELSE defReqs
  /\ keyMgr' = [isKeySet |-> FALSE]
  /\ timers' = Tail(timers)
  /\ lastEvent' = Quiet
  /\ UNCHANGED << ai, localStorage, env, analyzeReqs, worksheetReqs, randomOps, count >>

\* 100 ms pass; a due callback runs before later time is observed
Tick ==
  /\ timers # <<>> /\ Head(timers).rem > 0
  /\ timers' = [i \in 1..Len(timers) |-> [timers[i] EXCEPT !.rem = @ - 1]]
  /\ lastEvent' = Quiet
  /\ UNCHANGED << app, ai, localStorage, env, keyMgr, analyzeReqs, worksheetReqs,
                  randomOps, defReqs, count >>

\* ------------------------------------------------------------ handleRandom
GeneratingText(topic) == << Piece("generating", topic, 0) >>
GeneratedText(topic, articleText) == << Piece("generated", topic, 0) >> \o articleText

\* the chunk streamDefinition yields when no client can be built
NoKeyChunk(run) == [Piece("error", <<>>, 0) EXCEPT !.run = run]
\* the chunk streamDefinition yields before rethrowing a service failure
StreamErrorChunk(run, topic) == [Piece("error", topic, 1) EXCEPT !.run = run]

\* the texts of the n-th chunk the service may send on the stream of a run:
\* some text, or a chunk whose text is empty
ChunkTexts(run, topic, n) == { << [Piece("chunk", topic, n) EXCEPT !.run = run] >>, <<>> }

\* the catch and finally blocks of handleRandom
CatchRandom(a, message) ==
  [a EXCEPT !.error = message, !.mainText = WELCOME_TEXT, !.loadingState = "idle"]

\* a handler without the test of apiKeyConfigured
handleRandomUnguarded(randomTopic) ==
  LET op == count.random + 1
      a1 == [app EXCEPT !.loadingState = "analyzing", !.error = Null,
                        !.mainText = GeneratingText(randomTopic),
                        !.analyzedWords = <<>>, !.selectedWords = <<>>]
      client == ensureAiClient(ai, localStorage, env)
  IN /\ MayStart("random")
     /\ count' = [count EXCEPT !.random = op]
     /\ ai' = client.ai
     /\ IF ~client.ok
        THEN /\ app' = CatchRandom(a1, NoKeyMessage)
             /\ lastEvent' = Event("fail:random", op)
             /\ UNCHANGED randomOps
        ELSE /\ app' = a1
             /\ randomOps' = randomOps \cup
                  { [op |-> op, topic |-> randomTopic, phase |-> "stream",
                     articleText |-> <<>>, sent |-> 0] }
             /\ lastEvent' = Quiet
     /\ UNCHANGED << localStorage, env, keyMgr, analyzeReqs, worksheetReqs, defReqs,
                     timers >>

\* App.handleRandom, up to its first suspension
handleRandom(randomTopic) ==
  IF ~app.apiKeyConfigured
  THEN /\ app' = [app EXCEPT !.error = ConfigureKeyMessage]
       /\ lastEvent' = Quiet
       /\ UNCHANGED << ai, localStorage, env, keyMgr, analyzeReqs, worksheetReqs,
                       randomOps, defReqs, timers, count >>
  ELSE
    LET op == count.random + 1
        a1 == [app EXCEPT !.loadingState = "analyzing", !.error = Null,
                          !.mainText = GeneratingText(randomTopic),
                          !.analyzedWords = <<>>, !.selectedWords = <<>>]
        client == ensureAiClient(ai, localStorage, env)
    IN /\ MayStart("random")
       /\ count' = [count EXCEPT !.random = op]
       /\ ai' = client.ai
       /\ IF ~client.ok
          THEN /\ app' = CatchRandom(a1, NoKeyMessage)
               /\ lastEvent' = Event("fail:random", op)
               /\ UNCHANGED randomOps
          ELSE /\ app' = a1
               /\ randomOps' = randomOps \cup
                    { [op |-> op, topic |-> randomTopic, phase |-> "stream",
                       articleText |-> <<>>, sent |-> 0] }
               /\ lastEvent' = Quiet
       /\ UNCHANGED << localStorage, env, keyMgr, analyzeReqs, worksheetReqs, defReqs,
                       timers >>

\* the stream of a handleRandom call delivers a chunk
RandomChunk(r, text) ==
  /\ r \in randomOps /\ r.phase = "stream" /\ r.sent < MaxChunks
  /\ text \in ChunkTexts(r.op, r.topic, r.sent + 1)
  /\ LET articleText == r.articleText \o text
     IN /\ randomOps' = (randomOps \ { r }) \cup
             { [r EXCEPT !.articleText = articleText, !.sent = @ + 1] }
        /\ app' = IF Truthy(text)
                  THEN [app EXCEPT !.mainText = GeneratedText(r.topic, articleText)]
                  ELSE app
  /\ lastEvent' = Quiet
  /\ UNCHANGED << ai, localStorage, env, keyMgr, analyzeReqs, worksheetReqs, defReqs,
                  timers, count >>

\* the stream of a handleRandom call ends; analyzeTextForVocabulary is called
RandomStreamEnd(r) ==
  /\ r \in randomOps /\ r.phase = "stream"
  /\ LET client == ensureAiClient(ai, localStorage, env)
     IN /\ ai' = client.ai
        /\ IF ~client.ok
           THEN /\ app' = CatchRandom(app, NoKeyMessage)
                /\ randomOps' = randomOps \ { r }
                /\ lastEvent' = Event("fail:random", r.op)
           ELSE IF ~Truthy(TrimText(r.articleText))
           THEN /\ app' = [app EXCEPT !.analyzedWords = <<>>, !.loadingState = "idle"]
                /\ randomOps' = randomOps \ { r }
                /\ lastEvent' = Quiet
           ELSE /\ app' = app
                /\ randomOps' = (randomOps \ { r }) \cup { [r EXCEPT !.phase = "analyze"] }
                /\ lastEvent' = Quiet
  /\ UNCHANGED << localStorage, env, keyMgr, analyzeReqs, worksheetReqs, defReqs,
                  timers, count >>

\* the stream of a handleRandom call fails: the error chunk, then the throw
RandomStreamFail(r) ==
  /\ r \in randomOps /\ r.phase = "stream"
  /\ randomOps' = randomOps \ { r }
  /\ app' = CatchRandom(
              [app EXCEPT !.mainText =
                 GeneratedText(r.topic, r.articleText \o << StreamErrorChunk(r.op, r.topic) >>)],
              Plain("transport"))
  /\ lastEvent' = Event("fail:random", r.op)
  /\ UNCHANGED << ai, localStorage, env, keyMgr, analyzeReqs, worksheetReqs, defReqs,
                  timers, count >>

\* the service answers the analysis request of a handleRandom call
RandomAnalyzeResponse(r, resp) ==
  /\ r \in randomOps /\ r.phase = "analyze"
  /\ randomOps' = randomOps \ { r }
  /\ LET out == analyzeOutcome(resp)
     IN IF out.ok
        THEN /\ app' = [app EXCEPT !.analyzedWords = out.words, !.loadingState = "idle"]
             /\ lastEvent' = Quiet
        ELSE /\ app' = CatchRandom(app, out.error)
             /\ lastEvent' = Event("fail:random", r.op)
  /\ UNCHANGED << ai, localStorage, env, keyMgr, analyzeReqs, worksheetReqs, defReqs,
                  timers, count >>

\* ------------------------------------------------- the definition effect
\* generateAsciiArt's bound on its attempt loop
maxRetries == 1

\* what the service may answer to generateAsciiArt's request
AsciiResponses == { "object", "notObject", "unparsable", "emptyArt", "transport" }

\* whether generateAsciiArt accepts the answer
asciiAccepted(resp) == resp = "object"

\* generateAsciiArt's catch block at the given attempt: throw or loop again
asciiAfterFailure(attempt) == IF attempt = maxRetries THEN "throw" ELSE "retry"

\* the record of one run of fetchDefinition
DefReq(op, topic) ==
  [op |-> op, topic |-> topic, cancelled |-> FALSE, accumulatedContent |-> <<>>,
   sent |-> 0, streaming |-> TRUE, ascii |-> "pending", attempt |-> 1,
   allInvalid |-> TRUE]

\* a run whose stream is consumed and whose art promise is settled is dropped
Live(reqs) == { r \in reqs : r.streaming \/ r.ascii = "pending" }

\* the synchronous head of fetchDefinition
FetchReset(a) ==
  [a EXCEPT !.loadingState = "loading_definition", !.error = Null,
            !.definitionContent = <<>>, !.asciiArt = None, !.generationTime = None]

\* the finally block of fetchDefinition for a run that is not cancelled
FetchFinally(a) ==
  [a EXCEPT !.generationTime = Some("measured"), !.loadingState = "idle"]

\* the definition effect after a render with App state a (before: prev): the
\* cleanup of the previous run, then fetchDefinition when the view is the
\* definition view and a topic is set
RunDefinitionEffect(prev, a) ==
  IF ~DepsChanged(prev, a)
  THEN /\ app' = a
       /\ UNCHANGED << ai, defReqs, count >>
  ELSE IF a.view # "definition" \/ ~Truthy(a.definitionTopic)
  THEN /\ app' = a
       /\ defReqs' = CancelAll(defReqs)
       /\ UNCHANGED << ai, count >>
  ELSE
    LET op == count.def + 1
        client == ensureAiClient(ai, localStorage, env)
        a1 == FetchReset(a)
    IN /\ MayStart("def")
       /\ count' = [count EXCEPT !.def = op]
       /\ ai' = client.ai
       /\ IF ~client.ok
          THEN /\ app' = FetchFinally(
                           [a1 EXCEPT !.asciiArt = Some(createFallbackArt(a.definitionTopic)),
                                      !.definitionContent = << NoKeyChunk(op) >>])
               /\ defReqs' = CancelAll(defReqs)
          ELSE IF maxRetries < 1
          THEN /\ app' = [a1 EXCEPT !.asciiArt = Some(createFallbackArt(a.definitionTopic))]
               /\ defReqs' = CancelAll(defReqs) \cup
                    { [DefReq(op, a.definitionTopic) EXCEPT !.ascii = "done", !.attempt = 0] }
          ELSE /\ app' = a1
               /\ defReqs' = CancelAll(defReqs) \cup { DefReq(op, a.definitionTopic) }

\* App.handleWordClick(word) and the effect it triggers
handleWordClick(word) ==
  IF ~Truthy(cleanedWord(word))
  THEN UNCHANGED vars
  ELSE /\ RunDefinitionEffect(app, [app EXCEPT !.definitionTopic = cleanedWord(word),
                                               !.view = "definition"])
       /\ keyMgr' = [isKeySet |-> FALSE]
       /\ lastEvent' = Quiet
       /\ UNCHANGED << localStorage, env, analyzeReqs, worksheetReqs, randomOps, timers >>

\* a chunk delivered to a loop that does not test isCancelled
DefChunkUncancelled(r, text) ==
  /\ r \in defReqs /\ r.streaming /\ r.sent < MaxChunks
  /\ text \in ChunkTexts(r.op, r.topic, r.sent + 1)
  /\ IF ~Truthy(text)
     THEN /\ defReqs' = (defReqs \ { r }) \cup { [r EXCEPT !.sent = @ + 1] }
          /\ app' = app
     ELSE /\ defReqs' = (defReqs \ { r }) \cup
               { [r EXCEPT !.sent = @ + 1, !.accumulatedContent = @ \o text] }
          /\ app' = [app EXCEPT !.definitionContent = r.accumulatedContent \o text]
  /\ lastEvent' = Quiet
  /\ UNCHANGED << ai, localStorage, env, keyMgr, analyzeReqs, worksheetReqs, randomOps,
                  timers, count >>

\* the stream of a definition run delivers a chunk
DefChunk(r, text) ==
  /\ r \in defReqs /\ r.streaming /\ r.sent < MaxChunks
  /\ text \in ChunkTexts(r.op, r.topic, r.sent + 1)
  /\ IF ~Truthy(text)
     THEN /\ defReqs' = (defReqs \ { r }) \cup { [r EXCEPT !.sent = @ + 1] }
          /\ app' = app
     ELSE IF r.cancelled
     THEN /\ defReqs' = Live((defReqs \ { r }) \cup { [r EXCEPT !.streaming = FALSE] })
          /\ app' = app
     ELSE /\ defReqs' = (defReqs \ { r }) \cup
               { [r EXCEPT !.sent = @ + 1, !.accumulatedContent = @ \o text] }
          /\ app' = [app EXCEPT !.definitionContent = r.accumulatedContent \o text]
  /\ lastEvent' = Quiet
  /\ UNCHANGED << ai, localStorage, env, keyMgr, analyzeReqs, worksheetReqs, randomOps,
                  timers, count >>

\* the stream of a definition run ends
DefStreamEnd(r) ==
  /\ r \in defReqs /\ r.streaming
  /\ defReqs' = Live((defReqs \ { r }) \cup { [r EXCEPT !.streaming = FALSE] })
  /\ app' = IF r.cancelled THEN app ELSE FetchFinally(app)
  /\ lastEvent' = Quiet
  /\ UNCHANGED << ai, localStorage, env, keyMgr, analyzeReqs, worksheetReqs, randomOps,
                  timers, count >>

\* a failure of the stream after which only the error text is shown
DefStreamFailDiscarding(r) ==
  /\ r \in defReqs /\ r.streaming
  /\ defReqs' = Live((defReqs \ { r }) \cup { [r EXCEPT !.streaming = FALSE] })
  /\ IF r.cancelled
     THEN /\ app' = app
          /\ lastEvent' = Quiet
     ELSE /\ app' = FetchFinally(
                      [app EXCEPT !.definitionContent = << StreamErrorChunk(r.op, r.topic) >>,
                                  !.error = Plain("transport")])
          /\ lastEvent' = Event("fail:definition", r.op)
  /\ UNCHANGED << ai, localStorage, env, keyMgr, analyzeReqs, worksheetReqs, randomOps,
                  timers, count >>

\* the stream of a definition run fails: the error chunk, then the throw
DefStreamFail(r) ==
  /\ r \in defReqs /\ r.streaming
  /\ defReqs' = Live((defReqs \ { r }) \cup { [r EXCEPT !.streaming = FALSE] })
  /\ IF r.cancelled
     THEN /\ app' = app
          /\ lastEvent' = Quiet
     ELSE /\ app' = FetchFinally(
                      [app EXCEPT !.definitionContent =
                                     r.accumulatedContent \o << StreamErrorChunk(r.op, r.topic) >>,
                                  !.error = Plain("transport")])
          /\ lastEvent' = Event("fail:definition", r.op)
  /\ UNCHANGED << ai, localStorage, env, keyMgr, analyzeReqs, worksheetReqs, randomOps,
                  timers, count >>

\* the art request of a definition run answered to a promise chain without
\* its catch callback
AsciiResponseUncaught(r, resp) ==
  /\ r \in defReqs /\ r.ascii = "pending"
  /\ resp \in AsciiResponses
  /\ IF asciiAccepted(resp)
     THEN /\ defReqs' = Live((defReqs \ { r }) \cup { [r EXCEPT !.ascii = "done"] })
          /\ app' = IF r.cancelled THEN app
                    ELSE [app EXCEPT !.asciiArt = Some(ServiceArt(r.topic))]
          /\ lastEvent' = Quiet
     ELSE IF asciiAfterFailure(r.attempt) = "throw"
     THEN /\ defReqs' = Live((defReqs \ { r }) \cup { [r EXCEPT !.ascii = "done"] })
          /\ app' = app
          /\ lastEvent' = Event(IF r.allInvalid /\ resp # "transport"
                                THEN "ascii:rejected:invalid" ELSE "ascii:rejected",
                                r.attempt)
     ELSE /\ defReqs' = (defReqs \ { r }) \cup
               { [r EXCEPT !.attempt = @ + 1,
                           !.allInvalid = @ /\ resp # "transport"] }
          /\ app' = app
          /\ lastEvent' = Quiet
  /\ UNCHANGED << ai, localStorage, env, keyMgr, analyzeReqs, worksheetReqs, randomOps,
                  timers, count >>

\* the art request of a definition run answered to callbacks that do not
\* test isCancelled
AsciiResponseUncancelled(r, resp) ==
  /\ r \in defReqs /\ r.ascii = "pending"
  /\ resp \in AsciiResponses
  /\ IF asciiAccepted(resp)
     THEN /\ defReqs' = Live((defReqs \ { r }) \cup { [r EXCEPT !.ascii = "done"] })
          /\ app' = [app EXCEPT !.asciiArt = Some(ServiceArt(r.topic))]
          /\ lastEvent' = Quiet
     ELSE IF asciiAfterFailure(r.attempt) = "throw"
     THEN /\ defReqs' = Live((defReqs \ { r }) \cup { [r EXCEPT !.ascii = "done"] })
          /\ app' = [app EXCEPT !.asciiArt = Some(createFallbackArt(r.topic))]
          /\ lastEvent' = Event(IF r.allInvalid /\ resp # "transport"
                                THEN "ascii:rejected:invalid" ELSE "ascii:rejected",
                                r.attempt)
     ELSE /\ defReqs' = (defReqs \ { r }) \cup
               { [r EXCEPT !.attempt = @ + 1,
                           !.allInvalid = @ /\ resp # "transport"] }
          /\ app' = app
          /\ lastEvent' = Quiet
  /\ UNCHANGED << ai, localStorage, env, keyMgr, analyzeReqs, worksheetReqs, randomOps,
                  timers, count >>

\* the service answers generateAsciiArt's request of a definition run
AsciiResponse(r, resp) ==
  /\ r \in defReqs /\ r.ascii = "pending"
  /\ resp \in AsciiResponses
  /\ IF asciiAccepted(resp)
     THEN /\ defReqs' = Live((defReqs \ { r }) \cup { [r EXCEPT !.ascii = "done"] })
          /\ app' = IF r.cancelled THEN app
                    ELSE [app EXCEPT !.asciiArt = Some(ServiceArt(r.topic))]
          /\ lastEvent' = Quiet
     ELSE IF asciiAfterFailure(r.attempt) = "throw"
     THEN /\ defReqs' = Live((defReqs \ { r }) \cup { [r EXCEPT !.ascii = "done"] })
          /\ app' = IF r.cancelled THEN app
                    ELSE [app EXCEPT !.asciiArt = Some(createFallbackArt(r.topic))]
          /\ lastEvent' = Event(IF r.allInvalid /\ resp # "transport"
                                THEN "ascii:rejected:invalid" ELSE "ascii:rejected",
                                r.attempt)
     ELSE /\ defReqs' = (defReqs \ { r }) \cup
               { [r EXCEPT !.attempt = @ + 1,
                           !.allInvalid = @ /\ resp # "transport"] }
          /\ app' = app
          /\ lastEvent' = Quiet
  /\ UNCHANGED << ai, localStorage, env, keyMgr, analyzeReqs, worksheetReqs, randomOps,
                  timers, count >>

\* ------------------------------------------------------- other handlers
\* an updater that appends the word whether it is selected or not
toggleSelectionAppending(prev, word) == prev \o << word >>

\* App.handleSelectionChange(word)
toggleSelection(prev, word) ==
  IF \E i \in 1..Len(prev) : prev[i] = word
  THEN SelectSeq(prev, LAMBDA w : w # word)
  ELSE prev \o << word >>

handleSelectionChange(word) ==
  /\ app' = [app EXCEPT !.selectedWords = toggleSelection(@, word)]
  /\ lastEvent' = Quiet
  /\ UNCHANGED << ai, localStorage, env, keyMgr, analyzeReqs, worksheetReqs, randomOps,
                  defReqs, timers, count >>

\* App.handleClear
handleClear ==
  /\ app' = [app EXCEPT !.mainText = EmptyText, !.analyzedWords = <<>>,
                        !.selectedWords = <<>>, !.error = Null]
  /\ lastEvent' = Quiet
  /\ UNCHANGED << ai, localStorage, env, keyMgr, analyzeReqs, worksheetReqs, randomOps,
                  defReqs, timers, count >>

\* App.handleBackToAnalyzer, the definition effect's cleanup and, when the
\* analyzer view is entered, the mount effect of its ApiKeyManager
handleBackToAnalyzer ==
  LET a1 == [app EXCEPT !.view = "analyzer", !.definitionTopic = <<>>,
                        !.worksheetData = None, !.error = Null,
                        !.showProgress = FALSE]
      m == IF app.view # "analyzer"
           THEN MountKeyManager(a1, ai, localStorage, env)
           ELSE [app |-> a1, ai |-> ai, keyMgr |-> keyMgr]
  IN /\ app' = m.app
     /\ ai' = m.ai
     /\ keyMgr' = m.keyMgr
     /\ defReqs' = IF DepsChanged(app, a1) THEN CancelAll(defReqs) ELSE defReqs
     /\ lastEvent' = Quiet
     /\ UNCHANGED << localStorage, env, analyzeReqs, worksheetReqs, randomOps, timers,
                     count >>

\* ------------------------------------------- what the rendered page allows
isLoading == app.loadingState # "idle"

\* the ApiKeyManager is part of the analyzer view
KeyManagerShown == app.view = "analyzer"

\* the InputArea is rendered once a key is configured
InputAreaShown == app.view = "analyzer" /\ app.apiKeyConfigured

\* the analyzed text, the vocabulary list and the worksheet button
ResultsShown == app.view = "analyzer" /\ ~isLoading /\ ~app.showProgress

Contains(seq, x) == \E i \in 1..Len(seq) : seq[i] = x

\* a click handler that does not look at isLoading
handleAnalyzeClickWhileLoading(text) ==
  /\ Truthy(TrimText(text))
  /\ handleAnalyze(TrimText(text))

\* InputArea.handleAnalyzeClick with `text` in the textarea
handleAnalyzeClick(text) ==
  /\ Truthy(TrimText(text)) /\ ~isLoading
  /\ handleAnalyze(TrimText(text))

ClickSave(input) == KeyManagerShown /\ handleSaveKey(input)
ClickRemove == KeyManagerShown /\ keyMgr.isKeySet /\ handleRemoveKey
ClickAnalyze(text) == InputAreaShown /\ handleAnalyzeClick(text)
ClickRandom(topic) == InputAreaShown /\ ~isLoading /\ handleRandom(topic)
ClickClear == InputAreaShown /\ ~isLoading /\ handleClear
ClickWord(word) ==
  ResultsShown /\ Contains(app.analyzedWords, word) /\ handleWordClick(word)
ClickCheckbox(word) ==
  ResultsShown /\ Contains(app.analyzedWords, word) /\ handleSelectionChange(word)
ClickGenerateWorksheet ==
  ResultsShown /\ Len(app.selectedWords) > 0 /\ handleGenerateWorksheet
ClickBack == app.view \in { "definition", "worksheet" } /\ handleBackToAnalyzer

\* ------------------------------------------------------------ the program
UserStep ==
  \/ \E input \in KeyInputs : ClickSave(input)
  \/ ClickRemove
  \/ \E text \in UserTexts : ClickAnalyze(text)
  \/ \E topic \in SAMPLE_TOPICS : ClickRandom(topic)
  \/ ClickClear
  \/ \E word \in WordPool : ClickWord(word)
  \/ \E word \in WordPool : ClickCheckbox(word)
  \/ ClickGenerateWorksheet
  \/ ClickBack

ServiceStep ==
  \/ \E r \in analyzeReqs, resp \in AnalyzeResponses : AnalyzeResponse(r, resp)
  \/ \E r \in worksheetReqs, resp \in WorksheetResponses : WorksheetResponse(r, resp)
  \/ \E r \in randomOps : \E text \in ChunkTexts(r.op, r.topic, r.sent + 1) : RandomChunk(r, text)
  \/ \E r \in randomOps : RandomStreamEnd(r)
  \/ \E r \in randomOps : RandomStreamFail(r)
  \/ \E r \in randomOps, resp \in AnalyzeResponses : RandomAnalyzeResponse(r, resp)
  \/ \E r \in defReqs : \E text \in ChunkTexts(r.op, r.topic, r.sent + 1) : DefChunk(r, text)
  \/ \E r \in defReqs : DefStreamEnd(r)
  \/ \E r \in defReqs : DefStreamFail(r)
  \/ \E r \in defReqs, resp \in AsciiResponses : AsciiResponse(r, resp)

TimerStep ==
  \/ FireStepTimer
  \/ FireAnalysisResult
  \/ FireWorksheetResult
  \/ Tick

Next == UserStep \/ ServiceStep \/ TimerStep

Spec == Init /\ [][Next]_vars

\* ------------------------------------------- the definition effect alone
\* The effect of App over [view, definitionTopic] with its dependencies
\* driven directly: handleWordClick and handleBackToAnalyzer are called
\* whatever the page renders, so that a fetch can start while the previous
\* one still streams.
MaxFetches == 2

InitEffect == Loaded(EnvConfigs, { None, Some(SavedKey) },
       [analyze |-> 0, worksheet |-> 0, random |-> 0, def |-> MaxFetches, key |-> 0,
        total |-> MaxFetches])

NextEffect ==
  \/ \E word \in WordPool : handleWordClick(word)
  \/ handleBackToAnalyzer
  \/ \E r \in defReqs : \E text \in ChunkTexts(r.op, r.topic, r.sent + 1) : DefChunk(r, text)
  \/ \E r \in defReqs : DefStreamEnd(r)
  \/ \E r \in defReqs : DefStreamFail(r)
  \/ \E r \in defReqs, resp \in AsciiResponses : AsciiResponse(r, resp)

SpecEffect == InitEffect /\ [][NextEffect]_vars

\* every generateAsciiArt promise settles: the request is answered or fails,
\* and the event loop runs the then or catch callback of each settled promise
SpecEffectFair ==
  SpecEffect /\ WF_vars(\E r \in defReqs, resp \in AsciiResponses : AsciiResponse(r, resp))

\* --------------------------------------------- one session, service healthy
\* A user with a build-time key works through analyses, a worksheet and a
\* definition while the service is healthy: the behaviours of Spec in which
\* every analysis and worksheet request succeeds within 100 ms and the
\* definition is still loading, carried further than MaxOps operations.
SessionAnalyses == 2
SessionWorksheets == 1
SessionDefinitions == 1

InitSession ==
  Loaded({ [NoEnv EXCEPT !.VITE_GEMINI_API_KEY = Some(BuildKey)] }, { None },
       [analyze |-> SessionAnalyses, worksheet |-> SessionWorksheets, random |-> 0,
        def |-> SessionDefinitions, key |-> 0,
        total |-> SessionAnalyses + SessionWorksheets + SessionDefinitions])

\* the answers of a healthy service
WordsFound == [kind |-> "array", words |-> << <<"a">>, <<"b", ".">> >>]
WorksheetMade == [kind |-> "json", title |-> TRUE, details |-> 1]

NextSession ==
  \/ \E text \in UserTexts : ClickAnalyze(text)
  \/ \E word \in WordPool : ClickWord(word)
  \/ \E word \in WordPool : ClickCheckbox(word)
  \/ ClickGenerateWorksheet
  \/ ClickBack
  \/ \E r \in analyzeReqs : AnalyzeResponse(r, WordsFound)
  \/ \E r \in worksheetReqs : WorksheetResponse(r, WorksheetMade)
  \/ FireStepTimer
  \/ FireAnalysisResult
  \/ FireWorksheetResult
  \/ analyzeReqs = {} /\ worksheetReqs = {} /\ Tick

SpecSession == InitSession /\ [][NextSession]_vars

\* ------------------------------------------------- geminiService, called
\* The exported functions of geminiService applied directly, in every state
\* of the credential sources that the page's start and the key manager
\* produce. A call runs to its end in one step: its inputs and the service's
\* answers are chosen with the call, and lastEvent records the call, the
\* number of requests it sent and how it ended.
ServiceKeyOps == 2
ServiceChunks == 2

\* how a call ends: a value returned, or an Error thrown with a message
Returns(value) == [kind |-> "returns", value |-> value]
Throws(message) == [kind |-> "throws", class |-> "Error", message |-> message]

\* a call made: the client after it, the requests it sent and how it ended
Called(client, requests, outcome) ==
  [ai |-> client, result |-> [requests |-> requests, outcome |-> outcome]]

\* geminiService.analyzeTextForVocabulary(text), the service answering resp
analyzeTextForVocabulary(client, ls, e, text, resp) ==
  LET c == ensureAiClient(client, ls, e)
      out == analyzeOutcome(resp)
  IN IF ~c.ok THEN Called(c.ai, 0, Throws(NoKeyMessage))
     ELSE IF ~Truthy(TrimText(text)) THEN Called(c.ai, 0, Returns(<<>>))
     ELSE Called(c.ai, 1, IF out.ok THEN Returns(out.words) ELSE Throws(out.error))

\* geminiService.generateWorksheetData(text, words), the service answering resp
generateWorksheetData(client, ls, e, text, words, resp) ==
  LET c == ensureAiClient(client, ls, e)
      out == worksheetOutcome(resp)
  IN IF ~c.ok THEN Called(c.ai, 0, Throws(NoKeyMessage))
     ELSE IF ~Truthy(TrimText(text)) \/ Len(words) = 0
     THEN Called(c.ai, 0, Throws(Plain("Invalid input for worksheet generation.")))
     ELSE Called(c.ai, 1, IF out.ok THEN Returns(out.data) ELSE Throws(out.error))

\* the chunks of the service's stream that are yielded: those whose text is
\* not empty
YieldedTexts(received) == SelectSeq(received, Truthy)

\* a generator consumed to its end: what it yielded and how it ended
Streamed(client, requests, yields, ends) ==
  [ai |-> client, result |-> [requests |-> requests, yields |-> yields, ends |-> ends]]

\* a generator that yields nothing when no client can be built
streamDefinitionSilent(client, ls, e, topic, received, fails) ==
  LET c == ensureAiClient(client, ls, e)
  IN IF ~c.ok THEN Streamed(c.ai, 0, <<>>, "returns")
     ELSE IF fails
     THEN Streamed(c.ai, 1, YieldedTexts(received) \o << << StreamErrorChunk(0, topic) >> >>,
                   "throws")
     ELSE Streamed(c.ai, 1, YieldedTexts(received), "returns")

\* geminiService.streamDefinition(topic) consumed to its end: the service
\* sends the chunks `received` and then ends the stream or, if `fails`,
\* breaks it
streamDefinition(client, ls, e, topic, received, fails) ==
  LET c == ensureAiClient(client, ls, e)
  IN IF ~c.ok THEN Streamed(c.ai, 0, << << NoKeyChunk(0) >> >>, "returns")
     ELSE IF fails
     THEN Streamed(c.ai, 1, YieldedTexts(received) \o << << StreamErrorChunk(0, topic) >> >>,
                   "throws")
     ELSE Streamed(c.ai, 1, YieldedTexts(received), "returns")

\* the attempt loop of generateAsciiArt from the given attempt on
RECURSIVE asciiAttempts(_, _, _)
asciiAttempts(topic, answers, attempt) ==
  IF attempt > maxRetries
  THEN [requests |-> attempt - 1,
        outcome |-> Throws(Plain("All ASCII art generation attempts failed"))]
  ELSE IF asciiAccepted(answers[attempt])
  THEN [requests |-> attempt, outcome |-> Returns(ServiceArt(topic))]
  ELSE IF asciiAfterFailure(attempt) = "throw"
  THEN [requests |-> attempt,
        outcome |-> Throws(Plain("Could not generate ASCII art after maxRetries attempts."))]
  ELSE asciiAttempts(topic, answers, attempt + 1)

\* geminiService.generateAsciiArt(topic), the service answering answers[n] to
\* the n-th request
generateAsciiArt(client, ls, e, topic, answers) ==
  LET c == ensureAiClient(client, ls, e)
      loop == asciiAttempts(topic, answers, 1)
  IN IF ~c.ok THEN Called(c.ai, 0, Throws(NoKeyMessage))
     ELSE Called(c.ai, loop.requests, loop.outcome)

\* the build environments and the inputs the calls are explored with
ServiceEnvs ==
  { NoEnv,
    [NoEnv EXCEPT !.VITE_GEMINI_API_KEY = Some(BuildKey)],
    [NoEnv EXCEPT !.GEMINI_API_KEY = Some(BuildKey)],
    [NoEnv EXCEPT !.API_KEY = Some(BuildKey)],
    [NoEnv EXCEPT !.API_KEY = Some(PLACEHOLDER_API_KEY)] }
ServiceTexts == UserTexts \cup { EmptyText }
ServiceWordLists == { <<>>, << <<"a">> >> }
ServiceTopic == <<"a">>
ServiceStreams ==
  UNION { { s \in [1..n -> UNION { ChunkTexts(0, ServiceTopic, i) : i \in 1..n }] :
              \A i \in 1..n : s[i] \in ChunkTexts(0, ServiceTopic, i) } :
          n \in 0..ServiceChunks }
ServiceArtAnswers == [1..maxRetries -> AsciiResponses]

InitService == Loaded(ServiceEnvs, { None, Some(SavedKey) },
       [analyze |-> 0, worksheet |-> 0, random |-> 0, def |-> 0, key |-> ServiceKeyOps,
        total |-> 0])

\* the record of a call in lastEvent
ServiceCall(fn, input, result) ==
  [name |-> "call", op |-> 0, fn |-> fn, input |-> input, result |-> result]

\* a call with the given record and result, made in the current state
Apply(fn, input, r) ==
  /\ ai' = r.ai
  /\ lastEvent' = ServiceCall(fn, input, r.result)
  /\ UNCHANGED << app, localStorage, env, keyMgr, analyzeReqs, worksheetReqs, randomOps,
                  defReqs, timers, count >>

ApplyAnalyze(text, resp) ==
  Apply("analyzeTextForVocabulary", [text |-> text, resp |-> resp],
        analyzeTextForVocabulary(ai, localStorage, env, text, resp))

ApplyWorksheet(text, words, resp) ==
  Apply("generateWorksheetData", [text |-> text, words |-> words, resp |-> resp],
        generateWorksheetData(ai, localStorage, env, text, words, resp))

ApplyStream(received, fails) ==
  Apply("streamDefinition", [received |-> received, fails |-> fails],
        streamDefinition(ai, localStorage, env, ServiceTopic, received, fails))

ApplyAsciiArt(answers) ==
  Apply("generateAsciiArt", [answers |-> answers],
        generateAsciiArt(ai, localStorage, env, ServiceTopic, answers))

NextService ==
  \/ \E input \in KeyInputs \cup RejectedKeyInputs : ClickSave(input)
  \/ ClickRemove
  \/ \E text \in ServiceTexts, resp \in AnalyzeResponses : ApplyAnalyze(text, resp)
  \/ \E text \in ServiceTexts, words \in ServiceWordLists, resp \in WorksheetResponses :
       ApplyWorksheet(text, words, resp)
  \/ \E received \in ServiceStreams, fails \in BOOLEAN : ApplyStream(received, fails)
  \/ \E answers \in ServiceArtAnswers : ApplyAsciiArt(answers)

SpecService == InitService /\ [][NextService]_vars

\* ------------------------------------------- handlers, called in any state
\* handleAnalyze and handleRandom called whatever the page renders (the
\* InputArea that calls them is rendered only while apiKeyConfigured is
\* true), with the key manager beside them; one operation is carried to its
\* end.
HandlerOps == 1

InitHandlers ==
  Loaded(EnvConfigs, { None, Some(SavedKey) },
         [analyze |-> HandlerOps, worksheet |-> 0, random |-> HandlerOps, def |-> 0,
          key |-> MaxKeyOps, total |-> HandlerOps])

NextHandlers ==
  \/ \E input \in KeyInputs : ClickSave(input)
  \/ ClickRemove
  \/ \E text \in UserTexts : handleAnalyze(text)
  \/ \E topic \in SAMPLE_TOPICS : handleRandom(topic)
  \/ \E r \in analyzeReqs, resp \in AnalyzeResponses : AnalyzeResponse(r, resp)
  \/ \E r \in randomOps : \E text \in ChunkTexts(r.op, r.topic, r.sent + 1) : RandomChunk(r, text)
  \/ \E r \in randomOps : RandomStreamEnd(r)
  \/ \E r \in randomOps : RandomStreamFail(r)
  \/ \E r \in randomOps, resp \in AnalyzeResponses : RandomAnalyzeResponse(r, resp)
  \/ FireStepTimer
  \/ FireAnalysisResult
  \/ Tick

SpecHandlers == InitHandlers /\ [][NextHandlers]_vars

\* ------------------------------------------------- the selection, toggled
\* handleSelectionChange called with any word of a list of analysed words,
\* from the empty selection on: every selection without duplicates arises.
SelectableWords == 5

WordList == [i \in 1..SelectableWords |-> Repeat("w", i)]

SelectionLimits ==
  [analyze |-> 0, worksheet |-> 0, random |-> 0, def |-> 0, key |-> 0, total |-> 0]

InitSelection ==
  /\ env = [NoEnv EXCEPT !.VITE_GEMINI_API_KEY = Some(BuildKey)]
  /\ localStorage = None
  /\ LET m == MountKeyManager(AppInitial, None, localStorage, env)
     IN /\ app = [m.app EXCEPT !.mainText = << Piece("user", <<>>, 1) >>,
                               !.analyzedWords = WordList]
        /\ ai = m.ai /\ keyMgr = m.keyMgr
  /\ analyzeReqs = {} /\ worksheetReqs = {} /\ randomOps = {} /\ defReqs = {}
  /\ timers = <<>>
  /\ count = Started(SelectionLimits)
  /\ lastEvent = Quiet

NextSelection == \E i \in 1..Len(app.analyzedWords) : ClickCheckbox(app.analyzedWords[i])

SpecSelection == InitSelection /\ [][NextSelection]_vars

\* -------------------------------------------------- AnalyzedContent, rendered
\* AnalyzedContent rendered for texts and highlight words held character by
\* character. The characters are two cases of a letter, a punctuation mark
\* and a blank; lastEvent records the parts rendered and which are buttons.
MaxTextLen == 4
MaxHighlights == 2

\* String.prototype.toLowerCase
toLowerCase(s) == [i \in 1..Len(s) |-> IF s[i] = "A" THEN "a" ELSE s[i]]

\* whether the alternative w of the expression \b(...)\b matches at index i
\* of the text, flags gi: \b holds between a word character and none
MatchesAt(text, i, w) ==
  LET IsWordChar(p) == p >= 1 /\ p <= Len(text) /\ text[p] \in { "a", "A" }
      WordBoundary(p) == IsWordChar(p) # IsWordChar(p + 1)
      last == i + Len(w) - 1
  IN /\ last <= Len(text)
     /\ toLowerCase(SubSeq(text, i, last)) = toLowerCase(w)
     /\ WordBoundary(i - 1)
     /\ WordBoundary(last)

\* text.split(regex) with the one capturing group, scanning from index i
\* with the part that began at index start still open
RECURSIVE SplitFrom(_, _, _, _)
SplitFrom(text, words, i, start) ==
  IF i > Len(text) THEN << SubSeq(text, start, Len(text)) >>
  ELSE LET alternatives == { k \in 1..Len(words) : MatchesAt(text, i, words[k]) }
       IN IF alternatives = {} THEN SplitFrom(text, words, i + 1, start)
          ELSE LET w == words[CHOOSE k \in alternatives : \A j \in alternatives : k <= j]
                   next == i + Len(w)
               IN << SubSeq(text, start, i - 1), SubSeq(text, i, next - 1) >>
                    \o SplitFrom(text, words, next, next)

\* AnalyzedContent({text, highlightWords}): the parts rendered, in order,
\* each a button or plain text
AnalyzedContent(text, highlightWords) ==
  IF Len(highlightWords) = 0 THEN << [part |-> text, button |-> FALSE] >>
  ELSE LET parts == SplitFrom(text, highlightWords, 1, 1)
           isHighlight(part) ==
             \E k \in 1..Len(highlightWords) :
               toLowerCase(highlightWords[k]) = toLowerCase(part)
       IN [n \in 1..Len(parts) |-> [part |-> parts[n], button |-> isHighlight(parts[n])]]

HighlightTexts == UNION { [1..n -> { "a", "A", ".", " " }] : n \in 0..MaxTextLen }
HighlightWords == { <<"a">>, <<"a", ".">>, <<"a", "a">> }
HighlightLists == UNION { [1..n -> HighlightWords] : n \in 0..MaxHighlights }

InitHighlight ==
  /\ env = [NoEnv EXCEPT !.VITE_GEMINI_API_KEY = Some(BuildKey)]
  /\ localStorage = None
  /\ LET m == MountKeyManager(AppInitial, None, localStorage, env)
     IN /\ \E text \in HighlightTexts, words \in HighlightLists :
             app = [m.app EXCEPT !.mainText = text, !.analyzedWords = words]
        /\ ai = m.ai /\ keyMgr = m.keyMgr
  /\ analyzeReqs = {} /\ worksheetReqs = {} /\ randomOps = {} /\ defReqs = {}
  /\ timers = <<>>
  /\ count = Started(SelectionLimits)
  /\ lastEvent = Quiet

\* renderAnalyzerView renders AnalyzedContent with mainText and analyzedWords
Render ==
  /\ lastEvent' = [name |-> "render", op |-> 0,
                   parts |-> AnalyzedContent(app.mainText, app.analyzedWords)]
  /\ UNCHANGED << app, ai, localStorage, env, keyMgr, analyzeReqs, worksheetReqs,
                  randomOps, defReqs, timers, count >>

SpecHighlight == InitHighlight /\ [][Render]_vars

\* --------------------------------------------- worksheets, one after another
\* A user with a build-time key analyses texts and generates worksheets
\* repeatedly: the behaviours of Spec without articles and definitions, with
\* every analysis succeeding and any answer to a worksheet request, each
\* request answered within 100 ms, carried further than MaxOps operations.
RepeatedAnalyses == 2
RepeatedWorksheets == 2

InitWorksheets ==
  Loaded({ [NoEnv EXCEPT !.VITE_GEMINI_API_KEY = Some(BuildKey)] }, { None },
       [analyze |-> RepeatedAnalyses, worksheet |-> RepeatedWorksheets, random |-> 0,
        def |-> 0, key |-> 0, total |-> RepeatedAnalyses + RepeatedWorksheets])

NextWorksheets ==
  \/ \E text \in UserTexts : ClickAnalyze(text)
  \/ \E word \in WordPool : ClickCheckbox(word)
  \/ ClickGenerateWorksheet
  \/ ClickBack
  \/ \E r \in analyzeReqs : AnalyzeResponse(r, WordsFound)
  \/ \E r \in worksheetReqs, resp \in WorksheetResponses : WorksheetResponse(r, resp)
  \/ FireStepTimer
  \/ FireAnalysisResult
  \/ FireWorksheetResult
  \/ analyzeReqs = {} /\ worksheetReqs = {} /\ Tick

SpecWorksheets == InitWorksheets /\ [][NextWorksheets]_vars

\* ------------------------------------------------------------- properties
\* C1: when generateAsciiArt gives up because its responses failed
\* validation, it has made exactly two attempts (the first and one retry).
AsciiArtRetriesOnce ==
  lastEvent.name = "ascii:rejected:invalid" => lastEvent.op = 2

\* no request is open and no timer is pending: the page changes no more
\* unless the user acts
NothingPending ==
  /\ analyzeReqs = {} /\ worksheetReqs = {} /\ randomOps = {} /\ defReqs = {}
  /\ timers = <<>>

\* C2: every non-idle loadingState is followed by idle: once nothing is
\* pending any more, loadingState has returned to idle.
LoadingEndsIdle == NothingPending => app.loadingState = "idle"

\* C3: once a fetch for another topic has started, definitionContent holds
\* chunks of that fetch only: every piece shown was received by the run of
\* fetchDefinition started last.
ContentOfLatestFetch ==
  \A i \in 1..Len(app.definitionContent) : app.definitionContent[i].run = count.def

\* a fetch started while the previous one was streaming, the previous stream
\* is still open and a chunk of the new fetch is shown
SupersededWhileStreaming ==
  /\ \E r \in defReqs : r.op < count.def /\ r.streaming /\ r.cancelled
  /\ \E r \in defReqs : r.op = count.def /\ r.topic = app.definitionTopic /\ r.sent > 0
  /\ app.definitionContent # <<>>

\* the callback at the head of the timer queue runs in this step
HeadTimerRuns == Due /\ timers' = Tail(timers)

\* C4: the delayed result of an operation is applied only if no later
\* operation of the same kind has started since it was scheduled.
ResultAppliedOnlyIfLatest ==
  [][ HeadTimerRuns =>
        /\ Head(timers).kind = "analysisResult" => Head(timers).op = count.analyze
        /\ Head(timers).kind = "worksheetResult" => Head(timers).op = count.worksheet
    ]_vars

ActiveSteps(steps) == { i \in 1..Len(steps) : steps[i].active }

\* C5: while loadingState is analyzing or generating_worksheet and
\* showProgress is true, exactly one progress step is active.
OneActiveStepInProgress ==
  (app.loadingState \in { "analyzing", "generating_worksheet" } /\ app.showProgress)
    => Cardinality(ActiveSteps(app.progressSteps)) = 1

\* the step stays within one workflow instance: no analysis or worksheet
\* generation starts in it
SameWorkflow ==
  count'.analyze = count.analyze /\ count'.worksheet = count.worksheet

\* C6: within one workflow instance a completed step stays completed and is
\* not activated again.
CompletedStepsStay ==
  [][ SameWorkflow =>
        \A i \in 1..Len(app.progressSteps) :
          app.progressSteps[i].completed =>
            /\ app'.progressSteps[i].completed
            /\ app'.progressSteps[i].active => app.progressSteps[i].active
    ]_vars

\* the operation that scheduled timer t has settled
OperationEnded(t) ==
  /\ t.type = "analyze" => \A r \in analyzeReqs : r.op # t.op
  /\ t.type = "worksheet" => \A r \in worksheetReqs : r.op # t.op

\* C7: a cosmetic timer that runs after its operation has ended and
\* showProgress is false changes neither progressSteps nor
\* currentProgressStep.
LateStepTimerChangesNothing ==
  [][ (HeadTimerRuns /\ Head(timers).kind = "step" /\ OperationEnded(Head(timers))
         /\ ~app.showProgress)
        => /\ app'.progressSteps = app.progressSteps
           /\ app'.currentProgressStep = app.currentProgressStep
    ]_vars

\* C8: after a failure of an analysis, a worksheet generation, a random
\* article or a definition stream, error is non-null, loadingState is idle
\* and showProgress is false.
FailureLeavesErrorAndIdle ==
  lastEvent.name \in { "fail:analyze", "fail:worksheet", "fail:random", "fail:definition" }
    => /\ app.error # Null
       /\ app.loadingState = "idle"
       /\ ~app.showProgress

\* requests in flight, per kind: analyzeTextForVocabulary is called by
\* handleAnalyze and handleRandom, streamDefinition by handleRandom and the
\* definition effect
AnalysesInFlight ==
  Cardinality(analyzeReqs) + Cardinality({ r \in randomOps : r.phase = "analyze" })
WorksheetsInFlight == Cardinality(worksheetReqs)
StreamsInFlight ==
  Cardinality({ r \in defReqs : r.streaming })
    + Cardinality({ r \in randomOps : r.phase = "stream" })

\* C9: no operation starts while an analysis, worksheet or definition-stream
\* request is outstanding: at most one such request is in flight at any time.
OneRequestInFlight ==
  AnalysesInFlight + WorksheetsInFlight + StreamsInFlight <= 1

\* a second operation is in flight, alone, and the InputArea is on the page
\* with its controls disabled
SecondRequestAlone ==
  /\ count.analyze + count.random = 2
  /\ AnalysesInFlight = 1
  /\ InputAreaShown /\ isLoading

ViewTransitions ==
  { << "analyzer", "definition" >>, << "definition", "analyzer" >>,
    << "worksheet", "analyzer" >>, << "analyzer", "worksheet" >> }

\* C10: the view changes only from analyzer to definition, from definition
\* or worksheet to analyzer, and from analyzer to worksheet.
ViewChangesAsListed ==
  [][ app'.view # app.view => << app.view, app'.view >> \in ViewTransitions ]_vars

\* C11: in every reachable state every word of selectedWords is an element
\* of analyzedWords.
SelectionWithinAnalyzed ==
  \A i \in 1..Len(app.selectedWords) :
    Contains(app.analyzedWords, app.selectedWords[i])

\* C12: a step in which the view leaves analyzer resets analyzedWords,
\* selectedWords and error.
LeavingAnalyzerResets ==
  [][ (app.view = "analyzer" /\ app'.view # "analyzer")
        => /\ app'.analyzedWords = <<>>
           /\ app'.selectedWords = <<>>
           /\ app'.error = Null ]_vars

\* a run of fetchDefinition whose cleanup has run resumes in this step: it
\* takes a chunk, sees its stream end or fail, or has its art request answered
CancelledRunResumes == \E r \in defReqs : r.cancelled /\ r \notin defReqs'

\* C13: a definition run whose cleanup has run modifies none of
\* definitionContent, asciiArt, generationTime and error, wherever it resumes.
CancelledRunWritesNothing ==
  [][ CancelledRunResumes
        => /\ app'.definitionContent = app.definitionContent
           /\ app'.asciiArt = app.asciiArt
           /\ app'.generationTime = app.generationTime
           /\ app'.error = app.error ]_vars

\* the art request of a cancelled run has just been rejected while the next
\* run is loading, and no fallback art is shown
CancelledArtFailureShowsNothing ==
  /\ lastEvent.name \in { "ascii:rejected", "ascii:rejected:invalid" }
  /\ \E r \in defReqs : ~r.cancelled /\ r.ascii = "pending"
  /\ app.loadingState = "loading_definition"
  /\ app.asciiArt = None

\* the last step was a call of the given function of geminiService
LastCall(fn) == lastEvent.name = "call" /\ lastEvent.fn = fn

\* no saved key and no environment key: nothing in localStorage, and every
\* environment variable undefined or left at the placeholder
NoCredential ==
  /\ ~localStorage.some
  /\ \A name \in DOMAIN env : ~env[name].some \/ env[name].val = PLACEHOLDER_API_KEY

\* C14: analyzeTextForVocabulary called with an empty or whitespace-only text
\* returns an empty list and sends no request, whatever the credential
\* sources hold.
BlankTextReturnsEmpty ==
  (LastCall("analyzeTextForVocabulary") /\ ~Truthy(TrimText(lastEvent.input.text)))
    => lastEvent.result = [requests |-> 0, outcome |-> Returns(<<>>)]

IncompleteWorksheetRejected ==
  [][ (/\ lastEvent'.name = "fail:worksheet"
       /\ app'.error = WorksheetFailed("API returned incomplete worksheet data."))
        => /\ app'.loadingState = "idle"
           /\ app'.error # Null
           /\ app'.worksheetData = app.worksheetData
           /\ app'.view = "analyzer" ]_vars

\* the outcomes analyzeTextForVocabulary has for a request that fails in
\* transport or at the service
TransportOutcomes ==
  { Throws(analyzeOutcome(resp).error) : resp \in { t \in AnalyzeResponses : t.kind = "transport" } }

\* C17: analyzeTextForVocabulary returns a value only for a response that
\* parses to an array of strings, and the error it throws for a response that
\* does not parse or has another shape is of another class than the error it
\* throws for a transport or service failure.
MalformedResponseSetApart ==
  (LastCall("analyzeTextForVocabulary") /\ lastEvent.result.requests = 1)
    => /\ lastEvent.result.outcome.kind = "returns"
            => /\ lastEvent.input.resp.kind = "array"
               /\ lastEvent.result.outcome.value = lastEvent.input.resp.words
       /\ lastEvent.input.resp.kind \in { "garbage", "otherJson" }
            => /\ lastEvent.result.outcome.kind = "throws"
               /\ \A t \in TransportOutcomes : t.class # lastEvent.result.outcome.class

StreamYieldsWhatArrives ==
  (LastCall("streamDefinition") /\ lastEvent.result.requests = 1)
    => /\ lastEvent.result.yields = YieldedTexts(lastEvent.input.received)
       /\ lastEvent.result.ends = IF lastEvent.input.fails THEN "throws" ELSE "returns"

\* C20: when the stream of a definition run that is not cancelled fails after
\* at least one chunk was applied, definitionContent still starts with the
\* chunks applied before the failure, and error is non-null.
PartialContentKept ==
  [][ (lastEvent'.name = "fail:definition" /\ Truthy(app.definitionContent))
        => /\ StartsWith(app'.definitionContent, app.definitionContent)
           /\ app'.error # Null ]_vars

\* the stream of a run failed after a chunk was applied, and the chunk is
\* still shown
FailedAfterChunk ==
  /\ lastEvent.name = "fail:definition"
  /\ \E i \in 1..Len(app.definitionContent) :
       app.definitionContent[i].k = "chunk" /\ app.definitionContent[i].run = lastEvent.op

\* the last step was a Save that handleSaveKey answered with an error message
SaveRejected(event) ==
  event.name \in { SaveRejection(input) : input \in RejectedKeyInputs }

\* C21: a Save of a key that is empty after trimming, does not start with
\* 'AI' or is shorter than 20 characters is answered with an error message
\* and changes nothing stored: localStorage, the client's key and
\* apiKeyConfigured stay as they were, and whatever a Save puts into
\* localStorage is a trimmed key with the prefix and the minimum length.
RejectedSaveStoresNothing ==
  [][ /\ SaveRejected(lastEvent')
        => /\ localStorage' = localStorage
           /\ ai' = ai
           /\ app'.apiKeyConfigured = app.apiKeyConfigured
      /\ (localStorage'.some /\ localStorage' # localStorage)
        => /\ localStorage'.val = Trim(localStorage'.val)
           /\ StartsWith(localStorage'.val, <<"A", "I">>)
           /\ Len(localStorage'.val) >= 20 ]_vars

\* a Save was just rejected and the store that was empty is still empty
RejectedWithEmptyStore ==
  /\ SaveRejected(lastEvent)
  /\ ~localStorage.some /\ ~ai.some /\ ~app.apiKeyConfigured

\* the key the build supplies: the first environment variable that is set to
\* something else than the placeholder
EnvironmentKey(e) ==
  LET Set(v) == v.some /\ Truthy(v.val) /\ v.val # PLACEHOLDER_API_KEY
  IN IF Set(e.VITE_GEMINI_API_KEY) THEN e.VITE_GEMINI_API_KEY
     ELSE IF Set(e.GEMINI_API_KEY) THEN e.GEMINI_API_KEY
     ELSE IF Set(e.API_KEY) THEN e.API_KEY
     ELSE None

\* C22: after startup and any saves and removals, the key the client uses for
\* its next request is the saved key if one is stored, otherwise the key of
\* the build environment, otherwise none; and getCurrentApiKey returns the
\* saved key whenever one is stored.
SavedThenEnvironmentKey ==
  /\ ensureAiClient(ai, localStorage, env).ai =
       IF localStorage.some THEN localStorage ELSE EnvironmentKey(env)
  /\ localStorage.some => getCurrentApiKey(localStorage, env) = localStorage

\* a list without duplicates, the words in a list, and a list with one word
\* taken out
NoDuplicates(seq) == \A i, j \in 1..Len(seq) : seq[i] = seq[j] => i = j
Members(seq) == { seq[i] : i \in 1..Len(seq) }
Without(seq, word) == SelectSeq(seq, LAMBDA w : w # word)

\* C23: handleSelectionChange flips the membership of the word: toggling a
\* word twice gives back the words that were selected, a word that was not
\* selected is appended at the end, a word that was selected is taken out
\* with the others left in their order, and selectedWords never holds a word
\* twice.
ToggleFlipsMembership ==
  /\ NoDuplicates(app.selectedWords)
  /\ \A i \in 1..Len(app.analyzedWords) :
       LET word == app.analyzedWords[i]
           once == toggleSelection(app.selectedWords, word)
           twice == toggleSelection(once, word)
       IN /\ Members(twice) = Members(app.selectedWords)
          /\ NoDuplicates(once) /\ NoDuplicates(twice)
          /\ IF word \in Members(app.selectedWords)
             THEN once = Without(app.selectedWords, word)
             ELSE once = app.selectedWords \o << word >> /\ twice = app.selectedWords

\* every word is selected, the last of the list first
AllSelectedLastFirst ==
  /\ Members(app.selectedWords) = Members(app.analyzedWords)
  /\ Len(app.selectedWords) = SelectableWords
  /\ app.selectedWords[1] = app.analyzedWords[SelectableWords]

\* the characters of the parts up to and including part n, and all of them
RECURSIVE Joined(_, _)
Joined(parts, n) == IF n = 0 THEN <<>> ELSE Joined(parts, n - 1) \o parts[n].part

\* a word boundary after the first p characters of the text: exactly one of
\* the characters at p and p + 1 is a letter
BoundaryAfter(text, p) ==
  (p >= 1 /\ text[p] \in { "a", "A" }) # (p < Len(text) /\ text[p + 1] \in { "a", "A" })

\* the occurrences of highlight words in the text that are delimited by word
\* boundaries, each as << first index, last index >>
BoundedOccurrences(text, words) ==
  { o \in (1..Len(text)) \X (1..Len(text)) :
      /\ o[1] <= o[2]
      /\ \E k \in 1..Len(words) :
           toLowerCase(SubSeq(text, o[1], o[2])) = toLowerCase(words[k])
      /\ BoundaryAfter(text, o[1] - 1)
      /\ BoundaryAfter(text, o[2]) }

\* the buttons rendered, each as << first index, last index >> in the text
Buttons(parts) ==
  { << Len(Joined(parts, n - 1)) + 1, Len(Joined(parts, n)) >> :
      n \in { m \in 1..Len(parts) : parts[m].button } }

\* C24: AnalyzedContent renders as buttons exactly the case-insensitive
\* occurrences of highlight words that are delimited by word boundaries (of
\* occurrences that overlap, at least not none), and the parts rendered make
\* up the text.
ButtonsAreBoundedOccurrences ==
  lastEvent.name = "render"
    => LET parts == lastEvent.parts
           found == BoundedOccurrences(app.mainText, app.analyzedWords)
       IN /\ Joined(parts, Len(parts)) = app.mainText
          /\ Buttons(parts) \subseteq found
          /\ \A o \in found :
               \/ o \in Buttons(parts)
               \/ \E b \in Buttons(parts) : b # o /\ b[1] <= o[2] /\ o[1] <= b[2]

\* C25: in every reachable state the worksheet view has its data: view =
\* worksheet implies worksheetData is not null.
WorksheetViewHasData == app.view = "worksheet" => app.worksheetData # None

\* the worksheet is shown although the user had gone on to a definition
\* before its result callback ran
WorksheetShownAfterDefinition ==
  /\ app.view = "worksheet" /\ app.worksheetData # None
  /\ count.def >= 1

\* C26: after startup and every save and removal, apiKeyConfigured is true
\* exactly when the service can get a client for its next request: it has
\* one, or getCurrentApiKey finds a saved or an environment key.
FlagMeansCredential ==
  app.apiKeyConfigured <=> ensureAiClient(ai, localStorage, env).ok

\* C27: while apiKeyConfigured is false, handleAnalyze and handleRandom start
\* nothing: no operation is counted, no request is added, and the step that
\* shows the configure-key message changes error and nothing else.
RefusedHandlerOnlySetsError ==
  [][ /\ ~app.apiKeyConfigured
        => /\ count'.analyze = count.analyze /\ count'.random = count.random
           /\ analyzeReqs' \subseteq analyzeReqs
           /\ { r.op : r \in randomOps' } \subseteq { r.op : r \in randomOps }
      /\ (app'.error = ConfigureKeyMessage /\ app.error # ConfigureKeyMessage)
        => /\ ~app.apiKeyConfigured
           /\ app' = [app EXCEPT !.error = ConfigureKeyMessage]
           /\ UNCHANGED << ai, localStorage, env, keyMgr, analyzeReqs, worksheetReqs,
                           randomOps, defReqs, timers, count >> ]_vars

\* a handler was refused after an analysis had shown its words and the key
\* had been removed: the words are still there
RefusedWithWordsShown ==
  /\ app.error = ConfigureKeyMessage
  /\ ~app.apiKeyConfigured
  /\ Len(app.analyzedWords) > 0
  /\ count.key = 1

\* C28: while the progress indicator is shown, every active progress step is
\* the one named by currentProgressStep.
ActiveStepIsCurrent ==
  app.showProgress =>
    \A i \in ActiveSteps(app.progressSteps) :
      app.progressSteps[i].id = app.currentProgressStep

\* the art generateAsciiArt returned for the topic, or the fallback box
\* built from the topic
ArtFor(topic) == { Some(ServiceArt(topic)), Some(createFallbackArt(topic)) }

\* C29: the art shown in the definition view is null or an art of the
\* current topic, and while run n of the effect is not cancelled its art
\* eventually is an art of its topic.
ArtOfTopicEventuallyShown ==
  /\ [](app.view = "definition"
          => app.asciiArt \in { None } \cup ArtFor(app.definitionTopic))
  /\ \A n \in 1..MaxFetches :
       (count.def = n /\ app.view = "definition")
         ~> \/ count.def # n
            \/ app.view # "definition"
            \/ app.asciiArt \in ArtFor(app.definitionTopic)

\* the second run shows the fallback box of its topic after the service
\* failed to give an art, with a credential configured
SecondRunShowsFallback ==
  /\ count.def = 2
  /\ app.view = "definition"
  /\ app.asciiArt = Some(createFallbackArt(app.definitionTopic))
  /\ ensureAiClient(ai, localStorage, env).ok
  /\ lastEvent.name \in { "ascii:rejected", "ascii:rejected:invalid" }

====
